---- MODULE Spec2Model ----
(***************************************************************************)
(* Model of the random_generator plugin (src/src/lib.rs).                  *)
(*                                                                         *)
(* RandomGenPlugin holds the configured range, the histogram of values     *)
(* seen by parse_event, and the cancellation flag (Arc<Mutex<bool>>).      *)
(* start_async spawns one loop thread that draws a value, emits it through *)
(* the AsyncHandler, sleeps one second and then reads the flag under its   *)
(* lock.  The host                                                         *)
(* hands every emitted event back to parse_event, which is the only place  *)
(* that writes the histogram; extract_number and extract_count are the     *)
(* field extractors.                                                       *)
(*                                                                         *)
(* The host is modelled as the framework drives a plugin: it calls         *)
(* start_async once per plugin lifetime, delivers the emitted events to    *)
(* parse_event in the order they were emitted, each once, and may also     *)
(* present events whose payload is absent, of the wrong length or of       *)
(* another event type.                                                     *)
(***************************************************************************)
EXTENDS Integers, Sequences, FiniteSets, TLC

VARIABLES
    range,            \* RandomGenPlugin.range (lib.rs:26)
    histogram,        \* RandomGenPlugin.histogram (lib.rs:30), a map u64 -> u64
    mutex,            \* RandomGenPlugin.mutex (lib.rs:35), the cancellation flag
    loop,             \* the thread spawned by start_async: its position and `num`
    inflight,         \* events accepted by handler.emit and not yet parsed by the host
    ret,              \* the result of the last call the host made into the plugin
    lastEmit,         \* what the last handler.emit returned to the loop
    produced,         \* history: per value, how many events handler.emit accepted
    recorded,         \* history: per value, how many parse_event increments were made
    nStops,           \* history: how many stop_async calls were made
    stopAt,           \* history: where the loop was when the flag was first set
    emitsAfterStop,   \* history: events emitted while the flag was already set
    sleepsAfterStop,  \* history: sleeps the loop completed while the flag was set
    lock              \* who holds the MutexGuard of the flag: "free" or "loop"

vars == <<range, histogram, mutex, loop, inflight, ret, lastEmit, produced,
          recorded, nStops, stopAt, emitsAfterStop, sleepsAfterStop, lock>>

-----------------------------------------------------------------------------
(* Bounds of the model *)

\* the largest configured range that is explored (ranges 0..MaxRange)
MaxRange == 2

\* the number of events after which the loop is no longer allowed another
\* iteration
MaxEmits == 3

\* the number of stop_async calls the host makes at most
MaxStops == 2

(* Program constants *)

\* a u64 is serialised to 8 bytes
PayloadLen == 8

\* one byte holds 256 values
ByteBase == 256

Values == 0..MaxRange

-----------------------------------------------------------------------------
(* num.to_le_bytes().to_vec() and u64::from_le_bytes(buf.try_into()?) *)

RECURSIVE LeBytes(_, _)
LeBytes(n, k) ==
    IF k = 0 THEN <<>> ELSE <<n % ByteBase>> \o LeBytes(n \div ByteBase, k - 1)

\* a slip: the value is narrowed to one byte before it is serialised
\* ((num as u8) as u64)
to_le_bytes_low_byte(num) == LeBytes(num % ByteBase, PayloadLen)

to_le_bytes(num) == LeBytes(num, PayloadLen)

RECURSIVE from_le_bytes(_)
from_le_bytes(buf) ==
    IF buf = <<>> THEN 0 ELSE Head(buf) + ByteBase * from_le_bytes(Tail(buf))

\* buf.try_into(): a slice converts to [u8; 8] only when it has 8 bytes
try_into(buf) == [ok |-> Len(buf) = PayloadLen, arr |-> buf]

-----------------------------------------------------------------------------
(* Events as the host presents them *)

\* the event the loop builds around the encoded value (lib.rs:113-122); once
\* it is in the host's stream it is a plugin event carrying that payload
AsyncEvent(data) == [kind |-> "plugin", present |-> TRUE, data |-> data]

\* events that do not carry an 8-byte payload: no payload, a payload that is
\* too short or too long, and an event of another type
BadEvents ==
    { [kind |-> "plugin", present |-> FALSE, data |-> <<>>],
      [kind |-> "plugin", present |-> TRUE, data |-> <<>>],
      [kind |-> "plugin", present |-> TRUE, data |-> LeBytes(1, PayloadLen - 1)],
      [kind |-> "plugin", present |-> TRUE, data |-> LeBytes(1, PayloadLen + 1)],
      [kind |-> "other", present |-> TRUE, data |-> LeBytes(1, PayloadLen)] }

\* event.event()?, event.load::<PluginEvent>()?, and
\* event_data.ok_or_else(|| anyhow!("Missing event data"))?
event_data(ev) ==
    IF ev.kind # "plugin" THEN [ok |-> FALSE, buf |-> <<>>]
    ELSE IF ~ev.present THEN [ok |-> FALSE, buf |-> <<>>]
    ELSE [ok |-> TRUE, buf |-> ev.data]

\* the decoding shared by extract_number and parse_event
decode(ev) ==
    LET d == event_data(ev) IN
    IF ~d.ok THEN [ok |-> FALSE, val |-> 0]
    ELSE LET a == try_into(d.buf) IN
         IF ~a.ok THEN [ok |-> FALSE, val |-> 0]
         ELSE [ok |-> TRUE, val |-> from_le_bytes(a.arr)]

-----------------------------------------------------------------------------
(* The histogram: a BTreeMap, modelled as a function on the keys present *)

EmptyMap == [k \in {} |-> 0]

\* self.histogram.get(&num)
get(h, num) ==
    IF num \in DOMAIN h THEN [some |-> TRUE, val |-> h[num]]
    ELSE [some |-> FALSE, val |-> 0]

\* self.histogram.entry(num).or_insert(0)
or_insert(h, num, dflt) ==
    IF num \in DOMAIN h THEN h
    ELSE [k \in DOMAIN h \cup {num} |-> IF k = num THEN dflt ELSE h[k]]

\* a slip: the entry starts at 1 and is then incremented
increment_from_one(h, num) ==
    LET g == or_insert(h, num, 1) IN [g EXCEPT ![num] = @ + 1]

\* a slip: the increment is applied twice
increment_twice(h, num) ==
    LET g == or_insert(h, num, 0) IN [g EXCEPT ![num] = @ + 2]

\* a slip: the count is stored afresh instead of incremented
\* (self.histogram.insert(num, 1))
increment_overwrites(h, num) ==
    [k \in DOMAIN h \cup {num} |-> IF k = num THEN 1 ELSE h[k]]

\* *self.histogram.entry(num).or_insert(0) += 1
increment(h, num) ==
    LET g == or_insert(h, num, 0) IN [g EXCEPT ![num] = @ + 1]

\* a slip: an absent key is reported as an error instead of zero
extract_count_missing_err(h, num) ==
    LET c == get(h, num) IN
    IF c.some THEN [ok |-> TRUE, val |-> c.val] ELSE [ok |-> FALSE, val |-> 0]

\* the body of extract_count: the stored count, or zero when absent
extract_count(h, num) ==
    LET c == get(h, num) IN
    IF c.some THEN [ok |-> TRUE, val |-> c.val] ELSE [ok |-> TRUE, val |-> 0]

-----------------------------------------------------------------------------
(* Results returned to the host *)

Ret(op, ok, val, arg) == [op |-> op, ok |-> ok, val |-> val, arg |-> arg]

\* history helpers
Bump(f, v) == [f EXCEPT ![v] = @ + 1]

RECURSIVE CountOf(_, _)
CountOf(q, v) ==
    IF q = <<>> THEN 0
    ELSE (IF decode(Head(q)).val = v THEN 1 ELSE 0) + CountOf(Tail(q), v)

RECURSIVE Sum(_, _)
Sum(f, S) ==
    IF S = {} THEN 0
    ELSE LET x == CHOOSE y \in S : TRUE IN f[x] + Sum(f, S \ {x})

Emitted == Sum(produced, Values)

-----------------------------------------------------------------------------
(* Plugin::new (lib.rs:54-61): every configured range is accepted *)

Init ==
    /\ range \in 0..MaxRange
    /\ histogram = EmptyMap
    /\ mutex = FALSE
    /\ loop = [pc |-> "created", num |-> 0]
    /\ inflight = <<>>
    /\ ret = Ret("new", TRUE, 0, 0)
    /\ lastEmit = "none"
    /\ produced = [v \in Values |-> 0]
    /\ recorded = [v \in Values |-> 0]
    /\ nStops = 0
    /\ stopAt = "never"
    /\ emitsAfterStop = 0
    /\ sleepsAfterStop = 0
    /\ lock = "free"

-----------------------------------------------------------------------------
(* start_async (lib.rs:108-131) *)

\* a slip: the loop tests the flag before its first iteration
\* (while !flag { ... })
loop_entry_checks_first == "check"

\* the loop body starts with the draw; the flag is read at its end
loop_entry == "gen"

\* a variant in which start_async clears the flag for the new loop
StartAsync_resets_flag ==
    /\ loop.pc = "created"
    /\ loop' = [pc |-> loop_entry, num |-> 0]
    /\ mutex' = FALSE
    /\ ret' = Ret("start_async", TRUE, 0, 0)
    /\ UNCHANGED <<range, histogram, inflight, lastEmit, produced,
                   recorded, nStops, stopAt, emitsAfterStop, sleepsAfterStop, lock>>

\* spawn(move || loop { ... }); Ok(())
StartAsync ==
    /\ loop.pc = "created"
    /\ loop' = [pc |-> loop_entry, num |-> 0]
    /\ ret' = Ret("start_async", TRUE, 0, 0)
    /\ UNCHANGED <<range, histogram, mutex, inflight, lastEmit, produced,
                   recorded, nStops, stopAt, emitsAfterStop, sleepsAfterStop, lock>>

\* a slip: the upper bound is included (gen_range(0..=self.range))
gen_range_inclusive(r) == {[pc |-> "emit", num |-> n] : n \in 0..r}

\* self.thread_range.gen_range(0..self.range): panics on the empty range
gen_range(r) ==
    IF r = 0 THEN {[pc |-> "panicked", num |-> 0]}
    ELSE {[pc |-> "emit", num |-> n] : n \in 0..(r - 1)}

LoopGen ==
    /\ loop.pc = "gen"
    /\ loop' \in gen_range(range)
    /\ UNCHANGED <<range, histogram, mutex, inflight, ret, lastEmit, produced,
                   recorded, nStops, stopAt, emitsAfterStop, sleepsAfterStop, lock>>

\* what the sink can answer to handler.emit(event)
EmitOutcomes == {"ok", "transient", "permanent"}

\* handler.emit(event).unwrap(): Ok lets the loop go on to its sleep, any Err
\* panics the thread
unwrap_emit(outcome) == IF outcome = "ok" THEN "sleep" ELSE "panicked"

\* a variant in which the loop itself records the value it emits
histogram_on_emit_records(h, num) ==
    LET g == (IF num \in DOMAIN h THEN h
              ELSE [k \in DOMAIN h \cup {num} |-> IF k = num THEN 0 ELSE h[k]])
    IN [g EXCEPT ![num] = @ + 1]

\* the table as the loop leaves it when it emits: the loop never touches it
histogram_on_emit(h, num) == h

LoopEmit ==
    /\ loop.pc = "emit"
    /\ \E outcome \in EmitOutcomes :
         /\ lastEmit' = outcome
         /\ loop' = [pc |-> unwrap_emit(outcome), num |-> 0]
         /\ histogram' = histogram_on_emit(histogram, loop.num)
         /\ IF outcome = "ok"
            THEN /\ inflight' = Append(inflight, AsyncEvent(to_le_bytes(loop.num)))
                 /\ produced' = Bump(produced, loop.num)
                 /\ emitsAfterStop' = emitsAfterStop + (IF mutex THEN 1 ELSE 0)
            ELSE UNCHANGED <<inflight, produced, emitsAfterStop>>
    /\ UNCHANGED <<range, mutex, ret, recorded, nStops, stopAt, sleepsAfterStop, lock>>

\* sleep(Duration::from_secs(1)) runs to its end
LoopSleep ==
    /\ loop.pc = "sleep"
    /\ loop' = [loop EXCEPT !.pc = "check"]
    /\ sleepsAfterStop' = sleepsAfterStop + (IF mutex THEN 1 ELSE 0)
    /\ UNCHANGED <<range, histogram, mutex, inflight, ret, lastEmit, produced,
                   recorded, nStops, stopAt, emitsAfterStop, lock>>

\* a slip: the flag is read but the loop never breaks
after_check_no_break(flag) == "gen"

\* a slip: the test of the flag is inverted
after_check_inverted(flag) == IF flag THEN "gen" ELSE "done"

\* if *self.mutex.lock().unwrap() { break; }
after_check(flag) == IF flag THEN "done" ELSE "gen"

\* a slip: the guard is bound to a variable that lives to the end of the
\* iteration, so the lock is still held after the test
guard_after_check_held == "loop"

\* the MutexGuard is a temporary of the `if` condition: it is dropped as
\* soon as the flag has been read
guard_after_check == "free"

\* self.mutex.lock().unwrap(): the loop waits until the lock is free.  The
\* lock is never poisoned: no thread panics while it holds the guard.
LoopLock ==
    /\ loop.pc = "check"
    /\ lock = "free"
    /\ after_check(mutex) = "gen" => Emitted < MaxEmits
    /\ loop' = [loop EXCEPT !.pc = "locked"]
    /\ lock' = "loop"
    /\ UNCHANGED <<range, histogram, mutex, inflight, ret, lastEmit, produced,
                   recorded, nStops, stopAt, emitsAfterStop, sleepsAfterStop>>

\* the flag is read under the lock, the guard is dropped, and the loop
\* breaks or goes round
LoopCheck ==
    /\ loop.pc = "locked"
    /\ loop' = [loop EXCEPT !.pc = after_check(mutex)]
    /\ lock' = guard_after_check
    /\ UNCHANGED <<range, histogram, mutex, inflight, ret, lastEmit, produced,
                   recorded, nStops, stopAt, emitsAfterStop, sleepsAfterStop>>

Loop == LoopGen \/ LoopEmit \/ LoopSleep \/ LoopLock \/ LoopCheck

-----------------------------------------------------------------------------
(* stop_async (lib.rs:133-136) *)

\* a slip: the flag is toggled instead of set
stop_flag_toggle(flag) == ~flag

\* *self.mutex.lock() = true
stop_flag(flag) == TRUE

StopAsync ==
    /\ nStops < MaxStops
    /\ lock = "free"
    /\ mutex' = stop_flag(mutex)
    /\ ret' = Ret("stop_async", TRUE, 0, 0)
    /\ nStops' = nStops + 1
    /\ stopAt' = IF stopAt = "never" THEN loop.pc ELSE stopAt
    /\ UNCHANGED <<range, histogram, loop, inflight, lastEmit, produced,
                   recorded, emitsAfterStop, sleepsAfterStop, lock>>

-----------------------------------------------------------------------------
(* parse_event (lib.rs:198-212) *)

\* the events the host can hand to the plugin next: the oldest emitted event
\* that was not parsed yet, or an event without a well-formed payload
Deliverable ==
    (IF inflight = <<>> THEN {} ELSE {Head(inflight)}) \cup BadEvents

\* a slip: a payload that does not decode is counted as the value 0
\* (try_into().unwrap_or_default()) before the error is returned
ParseEventOn_counts_failures(ev) ==
    LET d == decode(ev) IN
    /\ IF d.ok
       THEN /\ histogram' = increment(histogram, d.val)
            /\ recorded' = Bump(recorded, d.val)
            /\ inflight' = Tail(inflight)
            /\ ret' = Ret("parse_event", TRUE, 0, d.val)
       ELSE /\ histogram' = increment(histogram, 0)
            /\ ret' = Ret("parse_event", FALSE, 0, 0)
            /\ UNCHANGED <<recorded, inflight>>
    /\ UNCHANGED <<range, mutex, loop, lastEmit, produced, nStops, stopAt,
                   emitsAfterStop, sleepsAfterStop, lock>>

\* parse_event called with the event ev
ParseEventOn(ev) ==
    LET d == decode(ev) IN
    /\ IF d.ok
       THEN /\ histogram' = increment(histogram, d.val)
            /\ recorded' = Bump(recorded, d.val)
            /\ inflight' = Tail(inflight)
            /\ ret' = Ret("parse_event", TRUE, 0, d.val)
       ELSE /\ ret' = Ret("parse_event", FALSE, 0, 0)
            /\ UNCHANGED <<histogram, recorded, inflight>>
    /\ UNCHANGED <<range, mutex, loop, lastEmit, produced, nStops, stopAt,
                   emitsAfterStop, sleepsAfterStop, lock>>

ParseEvent == \E ev \in Deliverable : ParseEventOn(ev)

-----------------------------------------------------------------------------
(* extract_number (lib.rs:172-180) and extract_count (lib.rs:182-190) *)

\* the events a field extraction can be asked about: any event in the host's
\* stream, or an event without a well-formed payload
Extractable == {inflight[i] : i \in 1..Len(inflight)} \cup BadEvents

\* extract_number called with a request for the event ev
ExtractNumberOn(ev) ==
    LET d == decode(ev) IN
    /\ ret' = Ret("extract_number", d.ok, d.val, 0)
    /\ UNCHANGED <<range, histogram, mutex, loop, inflight, lastEmit,
                   produced, recorded, nStops, stopAt, emitsAfterStop,
                   sleepsAfterStop, lock>>

ExtractNumber == \E ev \in Extractable : ExtractNumberOn(ev)

\* a slip: the lookup goes through the entry API and creates the key
\* (*self.histogram.entry(num).or_insert(0))
histogram_on_lookup_inserts(h, num) == or_insert(h, num, 0)

\* the table as a lookup leaves it: get(&num) only reads
histogram_on_lookup(h, num) == h

ExtractCount ==
    \E num \in Values :
      LET c == extract_count(histogram, num) IN
      /\ ret' = Ret("extract_count", c.ok, c.val, num)
      /\ histogram' = histogram_on_lookup(histogram, num)
      /\ UNCHANGED <<range, mutex, loop, inflight, lastEmit,
                     produced, recorded, nStops, stopAt, emitsAfterStop,
                     sleepsAfterStop, lock>>

-----------------------------------------------------------------------------

Next ==
    \/ StartAsync
    \/ LoopGen
    \/ LoopEmit
    \/ LoopSleep
    \/ LoopLock
    \/ LoopCheck
    \/ StopAsync
    \/ ParseEvent
    \/ ExtractNumber
    \/ ExtractCount

Spec == Init /\ [][Next]_vars

\* the loop thread is an OS thread: it is scheduled as long as it can step
FairSpec == Init /\ [][Next]_vars /\ WF_vars(Loop)

-----------------------------------------------------------------------------
(* The encoding and decoding of one drawn value, over values of several     *)
(* bytes: the plugin is configured with some range, the loop has drawn a    *)
(* value below it and emits it; the host parses the event and extracts its  *)
(* number.                                                                  *)

\* the small values 0..CodecSmall are all explored
CodecSmall == 20

\* the largest value explored, 2^31 - 1 (the values above it behave alike:
\* every byte is encoded and decoded by the same step)
MaxSample ==
    (ByteBase * ByteBase * ByteBase) * (ByteBase \div 2 - 1)
        + (ByteBase * ByteBase * ByteBase - 1)

\* values around every byte boundary
CodecSamples ==
    (0..CodecSmall) \cup
    { ByteBase - 1, ByteBase, ByteBase + 1,
      ByteBase * ByteBase - 1, ByteBase * ByteBase,
      ByteBase * ByteBase * ByteBase - 1, ByteBase * ByteBase * ByteBase,
      MaxSample - 1 }

CodecRanges == {r + 1 : r \in CodecSamples}

CodecInit ==
    /\ range \in CodecRanges
    /\ histogram = EmptyMap
    /\ mutex = FALSE
    /\ \E x \in CodecSamples : x < range /\ loop = [pc |-> "emit", num |-> x]
    /\ inflight = <<>>
    /\ ret = Ret("start_async", TRUE, 0, 0)
    /\ lastEmit = "none"
    /\ produced = [v \in CodecSamples |-> 0]
    /\ recorded = [v \in CodecSamples |-> 0]
    /\ nStops = 0
    /\ stopAt = "never"
    /\ emitsAfterStop = 0
    /\ sleepsAfterStop = 0
    /\ lock = "free"

CodecNext ==
    \/ LoopEmit
    \/ ParseEvent
    \/ ExtractNumber

CodecSpec == CodecInit /\ [][CodecNext]_vars

-----------------------------------------------------------------------------
(* Properties *)

Running == {"gen", "emit", "sleep", "check", "locked"}
Terminated == {"done", "panicked"}

\* what a lookup of v returns in the current state
lookup(v) == extract_count(histogram, v)

C2_LookupEqualsProduced ==
    \A v \in Values :
      CountOf(inflight, v) = 0 => lookup(v) = [ok |-> TRUE, val |-> produced[v]]

\* C2 witness: the scenario's shape (one value produced twice, another once,
\* a third never), all records done, and the lookup of the first returned 2.
C2_Witness ==
    \E v, w, z \in Values :
      /\ produced[v] = 2 /\ produced[w] = 1 /\ produced[z] = 0
      /\ inflight = <<>>
      /\ lookup(w).val = 1 /\ lookup(z).val = 0
      /\ ret = Ret("extract_count", TRUE, 2, v)

\* C3 (as stated in the specification): no value is emitted in any state in
\* which the flag has been set.
C3_NoEmitAfterStop == emitsAfterStop = 0

\* C3 (amended): when the flag is set while the loop sleeps or is about to
\* read the flag (or has ended), no further value is emitted; when it is set
\* before the emit of the iteration in progress (or before start_async), that
\* iteration's value is still emitted, and no value after it.
C3_ExitAtNextFlagRead ==
    /\ stopAt \in {"sleep", "check", "done", "panicked"} => emitsAfterStop = 0
    /\ emitsAfterStop <= 1
    /\ emitsAfterStop = 1 => stopAt \in {"created", "gen", "emit"}

\* C3 witness: the flag was set while an iteration had not emitted yet; its
\* value was emitted afterwards and the loop then exited.
C3_Witness ==
    /\ stopAt \in {"gen", "emit"}
    /\ emitsAfterStop = 1
    /\ loop.pc = "done"

\* C4: once the flag is set and the loop thread runs, the thread eventually
\* ends, and it completes at most one sleep while the flag is set.
C4_StopTerminatesLoop ==
    /\ (mutex /\ loop.pc \in Running) ~> (loop.pc \in Terminated)
    /\ [](sleepsAfterStop <= 1)

\* C4 witness: stop_async came while the loop was running, the loop finished
\* one sleep after it and exited.
C4_Witness ==
    /\ stopAt \in Running
    /\ sleepsAfterStop = 1
    /\ loop.pc = "done"

\* C5 (as stated in the specification): stop_async before start_async
\* succeeds and leaves the service as constructed (the flag still false).
C5_StopBeforeStartNoOp ==
    stopAt = "created" =>
        /\ ret.op = "stop_async" => ret.ok
        /\ mutex = FALSE

\* C6: a stop_async call that is not the first one succeeds and changes
\* nothing of the plugin or the loop; a loop thread that has exited stays
\* exited (it exits once).
C6_StopIdempotent ==
    [][ /\ (nStops' = nStops + 1 /\ nStops >= 1) =>
             /\ ret'.ok
             /\ UNCHANGED <<range, histogram, mutex, loop, inflight, lastEmit,
                            produced, recorded>>
        /\ loop.pc = "done" => loop'.pc = "done" ]_vars

\* C6 witness: two stop_async calls after start_async, and the loop exited.
C6_Witness ==
    /\ nStops = 2
    /\ stopAt \in Running
    /\ ret.op = "stop_async"
    /\ loop.pc = "done"

\* C7 (as stated in the specification): a failure of handler.emit never
\* ends the loop thread in a panic.
C7_PublishFailureHandled ==
    lastEmit \in {"transient", "permanent"} => loop.pc # "panicked"

\* C8 (as stated in the specification): a plugin configured with range 0 is
\* never started and its loop never draws from the empty range.
C8_ZeroRangeRejected ==
    range = 0 => loop.pc = "created"

\* C9: the count stored for a key never exceeds the number of times the
\* loop produced that key.
C9_CountAtMostProduced ==
    \A v \in DOMAIN histogram : v \in Values /\ histogram[v] <= produced[v]

\* C9 witness: lookups run while the loop is running; a key is stored with a
\* count below its number of productions.
C9_Witness ==
    /\ loop.pc \in Running
    /\ ret.op = "extract_count"
    /\ \E v \in DOMAIN histogram : histogram[v] >= 1 /\ histogram[v] < produced[v]

\* C10: a lookup of a value that was never recorded succeeds and returns 0.
C10_NeverRecordedIsZero ==
    /\ \A v \in Values : recorded[v] = 0 => lookup(v) = [ok |-> TRUE, val |-> 0]
    /\ (ret.op = "extract_count" /\ recorded[ret.arg] = 0) => (ret.ok /\ ret.val = 0)

\* C10 witness: the table is not empty, and a lookup of a value that was
\* never recorded has returned.
C10_Witness ==
    /\ histogram # EmptyMap
    /\ ret.op = "extract_count"
    /\ recorded[ret.arg] = 0

\* the events whose payload is absent or not exactly 8 bytes long
Malformed ==
    {ev \in BadEvents : ev.kind = "plugin" /\ (~ev.present \/ Len(ev.data) # PayloadLen)}

\* C11: parse_event and extract_number, called with an event whose payload
\* is absent or not 8 bytes long, return an error and leave the table, the
\* flag, the loop and the event stream as they were.
C11_MalformedPayloadRejected ==
    [][ \A ev \in Malformed :
          (ParseEventOn(ev) \/ ExtractNumberOn(ev)) =>
             /\ ~ret'.ok
             /\ UNCHANGED <<range, histogram, mutex, loop, inflight, lastEmit,
                            produced, recorded>> ]_vars

\* C11 witness: parse_event has just failed while the loop runs and the
\* table holds counts and an emitted event is still waiting.
C11_Witness ==
    /\ ret = Ret("parse_event", FALSE, 0, 0)
    /\ loop.pc \in Running
    /\ histogram # EmptyMap
    /\ inflight # <<>>

\* C12: every value below the range, encoded as the loop encodes it and
\* decoded as extract_number decodes it, comes back unchanged; the number
\* extract_number returns for an emitted event is the value that was emitted.
C12_RoundTrip ==
    /\ \A x \in CodecSamples :
         x < range => decode(AsyncEvent(to_le_bytes(x))) = [ok |-> TRUE, val |-> x]
    /\ (ret.op = "extract_number" /\ ret.ok) =>
          (ret.val \in DOMAIN produced /\ produced[ret.val] = 1)

\* C12 witness: extract_number returned an emitted value of more than two
\* bytes.
C12_Witness ==
    /\ ret.op = "extract_number"
    /\ ret.ok
    /\ ret.val >= ByteBase * ByteBase
    /\ produced[ret.val] = 1

\* C13: every value the loop has drawn, every event it has emitted and
\* every value counted as produced is at least 0 and below the range.
C13_ValueInRange ==
    /\ loop.pc = "emit" => (0 <= loop.num /\ loop.num < range)
    /\ \A i \in 1..Len(inflight) :
         LET d == decode(inflight[i]) IN d.ok /\ 0 <= d.val /\ d.val < range
    /\ \A v \in DOMAIN produced : produced[v] > 0 => v < range

\* C13 witness: with range 1 the loop has emitted several values, all 0.
C13_Witness ==
    /\ range = 1
    /\ produced[0] >= 2
    /\ inflight # <<>>

\* C14: in every state a lookup, a decode and a parse can complete; a
\* stop_async can complete whenever the flag's lock is free, wherever the
\* loop thread is (it does not wait for the thread to end); and the loop
\* never keeps the flag's lock: whenever it holds it, it releases it.
C14_NoDeadlock ==
    /\ [](ENABLED ExtractCount /\ ENABLED ExtractNumber /\ ENABLED ParseEvent)
    /\ []((lock = "free" /\ nStops < MaxStops) => ENABLED StopAsync)
    /\ (lock = "loop") ~> (lock = "free")

\* C14 witness: stop_async has returned while the loop thread, which held
\* the lock before and went round, is still asleep.
C14_Witness ==
    /\ ret.op = "stop_async"
    /\ mutex
    /\ loop.pc = "sleep"
    /\ Emitted >= 2
    /\ lock = "free"

\* C15: the flag is false until the first stop_async; only a stop_async
\* call changes it; once it is true it stays true in every step.
C15_FlagMonotonic ==
    /\ [](nStops = 0 => ~mutex)
    /\ [][ /\ mutex => mutex'
           /\ mutex' # mutex => (nStops' = nStops + 1 /\ ret'.op = "stop_async")
       ]_vars

\* C15 witness: start_async was called after the flag was set and the loop
\* it started runs with the flag still true.
C15_Witness ==
    /\ stopAt = "created"
    /\ loop.pc \in Running
    /\ mutex

\* C16: in every step every key of the table stays in it with a count that
\* is not smaller; the table changes only in a successful parse_event, and
\* that step adds exactly 1 to exactly one key (a new key starts at 1) and
\* leaves every other key as it was.
C16_TableMonotone ==
    [][ /\ \A k \in DOMAIN histogram :
             k \in DOMAIN histogram' /\ histogram'[k] >= histogram[k]
        /\ histogram' # histogram => recorded' # recorded
        /\ recorded' # recorded =>
             \E v \in DOMAIN histogram' :
               /\ DOMAIN histogram' = DOMAIN histogram \cup {v}
               /\ histogram'[v] = (IF v \in DOMAIN histogram THEN histogram[v] ELSE 0) + 1
               /\ \A k \in DOMAIN histogram \ {v} : histogram'[k] = histogram[k]
      ]_vars

\* C16 witness: one key was created and incremented again, another key was
\* created beside it.
C16_Witness ==
    \E v, w \in DOMAIN histogram :
      /\ v # w
      /\ histogram[v] = 2
      /\ histogram[w] = 1
      /\ ret.op = "parse_event" /\ ret.ok

\* C17: a step that is an extract_number or an extract_count call, whether
\* it returns a value or an error, leaves the table (its keys included), the
\* range, the flag, the loop and the event stream as they were.
C17_QueriesReadOnly ==
    [][ ( \/ ExtractNumber
          \/ ExtractCount
          \/ (ret' # ret /\ ret'.op \in {"extract_number", "extract_count"}) )
        => UNCHANGED <<histogram, range, mutex, loop, inflight, lock>> ]_vars

\* C17 witness: with the loop running and the flag set, a lookup of a value
\* that is not in the table has returned, and the value is still not a key.
C17_Witness ==
    /\ ret.op = "extract_count"
    /\ ret.arg \notin DOMAIN histogram
    /\ histogram # EmptyMap
    /\ mutex
    /\ loop.pc \in Running

\* C18: a step that emits a value while the flag is set is the first such
\* step: after the flag has been set the loop thread emits at most one value.
C18_BoundedOverrun ==
    [][ (mutex /\ produced' # produced) =>
           (emitsAfterStop = 0 /\ emitsAfterStop' = 1) ]_vars

\* C18 witness: the flag was set while a drawn value waited to be emitted, in
\* a later iteration; that value was emitted, and the loop exited.
C18_Witness ==
    /\ stopAt = "emit"
    /\ Emitted >= 2
    /\ emitsAfterStop = 1
    /\ nStops = 2
    /\ loop.pc = "done"

\* C19: the loop reaches its sleep and its read of the flag only after an
\* emit that succeeded; a loop started with the flag already set emits
\* exactly one value, completes exactly one sleep and is then done.
C19_CheckAfterWork ==
    /\ loop.pc \in {"sleep", "check", "locked", "done"} => Emitted >= 1
    /\ (stopAt = "created" /\ loop.pc \in {"sleep", "check", "locked", "done"}) =>
          (Emitted = 1 /\ emitsAfterStop = 1)
    /\ (stopAt = "created" /\ loop.pc = "done") => sleepsAfterStop = 1

\* C19 witness: stop_async before start_async; the loop emitted one value,
\* slept once and exited.
C19_Witness ==
    /\ stopAt = "created"
    /\ lastEmit = "ok"
    /\ Emitted = 1
    /\ sleepsAfterStop = 1
    /\ loop.pc = "done"

====
